---- MODULE Spec2Model ----
(***************************************************************************)
(* A model of src/client.py: the HyperLiquid asynchronous client.          *)
(*                                                                         *)
(* Text is modelled as a sequence of one-character strings, bytes as a     *)
(* sequence of numbers 0..255.  A number handed to float_to_wire is the    *)
(* exact decimal  (-1)^neg * (ip + f8 * 1e-8 + r * 1e-13)  with            *)
(* 0 <= f8 < 1e8 and 0 <= r < 1e5: eight fractional digits and what is     *)
(* left below them, in units of 1e-13.                                     *)
(***************************************************************************)
EXTENDS Integers, Sequences, FiniteSets, TLC

(***************************************************************************)
(* float_to_wire (client.py 16-23)                                         *)
(***************************************************************************)

\* 1e8: the number of 1e-8 steps in 1 ("{:.8f}", client.py line 17).
FracScale == 100000000

\* 1e5: the number of 1e-13 units in one 1e-8 step.
SubUnit == 100000

\* 1e-12 (client.py line 18) in units of 1e-13.
Tolerance == 10

DigitChars == <<"0", "1", "2", "3", "4", "5", "6", "7", "8", "9">>

DigitChar(d) == DigitChars[d + 1]

DigitVal(c) == CHOOSE d \in 0..9 : DigitChars[d + 1] = c

IsDigit(c) == \E d \in 0..9 : DigitChars[d + 1] = c

RECURSIVE DigitsOf(_)
\* The decimal digits of a natural number, no leading zeros.
DigitsOf(n) == IF n < 10 THEN <<DigitChar(n)>>
               ELSE Append(DigitsOf(n \div 10), DigitChar(n % 10))

RECURSIVE PadDigits(_, _)
\* n written with exactly w digits.
PadDigits(n, w) == IF w = 0 THEN <<>>
                   ELSE Append(PadDigits(n \div 10, w - 1), DigitChar(n % 10))

RECURSIVE DigitsValue(_)
DigitsValue(s) == IF s = <<>> THEN 0
                  ELSE 10 * DigitsValue(SubSeq(s, 1, Len(s) - 1)) + DigitVal(s[Len(s)])

\* Whether "{:.8f}" rounds x away from zero: round-half-even on the ninth digit.
RoundsUp(x) == \/ 2 * x.r > SubUnit
               \/ (2 * x.r = SubUnit /\ x.f8 % 2 = 1)

\* "{:.8f}".format(x): sign (kept for a negative zero), integer digits, ".",
\* eight fractional digits.
Format8f(x) ==
    LET f   == IF RoundsUp(x) THEN x.f8 + 1 ELSE x.f8
        ip  == IF f = FracScale THEN x.ip + 1 ELSE x.ip
        f8  == IF f = FracScale THEN 0 ELSE f
    IN  (IF x.neg THEN <<"-">> ELSE <<>>)
        \o DigitsOf(ip) \o <<".">> \o PadDigits(f8, 8)

\* The position of "." in s, or 0.
DotAt(s) == IF \E i \in 1..Len(s) : s[i] = "."
            THEN CHOOSE i \in 1..Len(s) : s[i] = "."
            ELSE 0

\* float(s) and Decimal(s) of a fixed-point text: sign, integer part, fraction.
ParseFixed(s) ==
    LET neg  == Len(s) > 0 /\ s[1] = "-"
        body == IF neg THEN SubSeq(s, 2, Len(s)) ELSE s
        dot  == DotAt(body)
        int  == IF dot = 0 THEN body ELSE SubSeq(body, 1, dot - 1)
        frac == IF dot = 0 THEN <<>> ELSE SubSeq(body, dot + 1, Len(body))
    IN  [neg |-> neg, int |-> int, frac |-> frac]

\* float(rounded) as a number of the model (rounded has 8 fractional digits).
FloatOf(s) ==
    LET p == ParseFixed(s)
    IN  [neg |-> p.neg, ip |-> DigitsValue(p.int),
         f8 |-> DigitsValue(p.frac), r |-> 0]

Abs(n) == IF n < 0 THEN -n ELSE n

\* abs(a - b) >= 1e-12 for two numbers of the same sign.
DiffersBy(a, b) ==
    LET d8 == (a.ip - b.ip) * FracScale + (a.f8 - b.f8)
    IN  IF Abs(d8) >= 2 THEN TRUE
        ELSE Abs(d8 * SubUnit + (a.r - b.r)) >= Tolerance

RECURSIVE StripZeros(_)
\* A digit string without its trailing zeros.
StripZeros(s) == IF s # <<>> /\ s[Len(s)] = "0"
                 THEN StripZeros(SubSeq(s, 1, Len(s) - 1))
                 ELSE s

\* f"{Decimal(s).normalize():f}": the insignificant zeros of the fraction go,
\* the sign stays, a negative zero included.
NormalizeF(s) ==
    LET p    == ParseFixed(s)
        frac == StripZeros(p.frac)
    IN  (IF p.neg THEN <<"-">> ELSE <<>>) \o p.int
        \o (IF frac = <<>> THEN <<>> ELSE <<".">> \o frac)

float_to_wire(x) ==
    LET rounded == Format8f(x)
    IN  IF DiffersBy(FloatOf(rounded), x)
        THEN [raised |-> "ValueError", value |-> <<>>]
        ELSE [raised |-> "none",
              value  |-> NormalizeF(IF rounded = <<"-", "0">> THEN <<"0">>
                                    ELSE rounded)]

(***************************************************************************)
(* Python values: None, bool, int, str (a sequence of characters), list    *)
(* and dict (the key/value pairs in insertion order).                      *)
(***************************************************************************)

None == [k |-> "nil", v |-> <<>>]

PyBool(b) == [k |-> "bool", v |-> <<b>>]

PyInt(n) == [k |-> "int", v |-> <<n>>]

PyStr(s) == [k |-> "str", v |-> s]

PyList(s) == [k |-> "list", v |-> s]

PyDict(s) == [k |-> "dict", v |-> s]

\* d[key] of a dict, or None when the key is missing (dict.get).
DictGet(d, key) ==
    IF \E i \in 1..Len(d.v) : d.v[i][1] = key
    THEN d.v[CHOOSE i \in 1..Len(d.v) : d.v[i][1] = key][2]
    ELSE None

DictHas(d, key) == \E i \in 1..Len(d.v) : d.v[i][1] = key

(***************************************************************************)
(* msgpack.packb (client.py 119) on these values.                          *)
(***************************************************************************)

UpperChars == <<"A", "B", "C", "D", "E", "F", "G", "H", "I", "J", "K", "L", "M",
                "N", "O", "P", "Q", "R", "S", "T", "U", "V", "W", "X", "Y", "Z">>

LowerChars == <<"a", "b", "c", "d", "e", "f", "g", "h", "i", "j", "k", "l", "m",
                "n", "o", "p", "q", "r", "s", "t", "u", "v", "w", "x", "y", "z">>

\* The UTF-8 byte of each character used: " ", "-", ".", the digits from
\* 48, the capitals from 65, the small letters from 97.
AsciiCode ==
    [c \in {" ", "-", "."} \cup {DigitChars[i] : i \in 1..10}
           \cup {UpperChars[i] : i \in 1..26} \cup {LowerChars[i] : i \in 1..26} |->
        CASE c = " " -> 32
          [] c = "-" -> 45
          [] c = "." -> 46
          [] IsDigit(c) -> 48 + DigitVal(c)
          [] \E i \in 1..26 : UpperChars[i] = c ->
                64 + (CHOOSE i \in 1..26 : UpperChars[i] = c)
          [] \E i \in 1..26 : LowerChars[i] = c ->
                96 + (CHOOSE i \in 1..26 : LowerChars[i] = c)]

Ascii(c) == AsciiCode[c]

RECURSIVE ToBytes(_, _)
\* n.to_bytes(len, "big") for 0 <= n < 256^len.
ToBytes(n, len) == IF len = 0 THEN <<>>
                   ELSE Append(ToBytes(n \div 256, len - 1), n % 256)

PackUInt(n) == IF n < 128 THEN <<n>>
               ELSE IF n < 256 THEN <<204>> \o ToBytes(n, 1)
               ELSE IF n < 65536 THEN <<205>> \o ToBytes(n, 2)
               ELSE <<206>> \o ToBytes(n, 4)

PackStrHeader(n) == IF n < 32 THEN <<160 + n>> ELSE <<217, n>>

RECURSIVE Pack(_)
RECURSIVE PackAll(_)
RECURSIVE PackPairs(_)
Pack(x) ==
    CASE x.k = "nil"  -> <<192>>
      [] x.k = "bool" -> IF x.v[1] THEN <<195>> ELSE <<194>>
      [] x.k = "int"  -> PackUInt(x.v[1])
      [] x.k = "str"  -> PackStrHeader(Len(x.v))
                         \o [i \in 1..Len(x.v) |-> Ascii(x.v[i])]
      [] x.k = "list" -> <<144 + Len(x.v)>> \o PackAll(x.v)
      [] x.k = "dict" -> <<128 + Len(x.v)>> \o PackPairs(x.v)

PackAll(s) == IF s = <<>> THEN <<>> ELSE Pack(Head(s)) \o PackAll(Tail(s))

PackPairs(s) == IF s = <<>> THEN <<>>
                ELSE Pack(Head(s)[1]) \o Pack(Head(s)[2]) \o PackPairs(Tail(s))

(***************************************************************************)
(* sign_l1_action (client.py 118-155)                                      *)
(***************************************************************************)

HexChars == <<"0", "1", "2", "3", "4", "5", "6", "7", "8", "9",
              "a", "b", "c", "d", "e", "f">>

UpperHexChars == <<"0", "1", "2", "3", "4", "5", "6", "7", "8", "9",
                   "A", "B", "C", "D", "E", "F">>

HexVal(c) == CHOOSE d \in 0..15 : HexChars[d + 1] = c \/ UpperHexChars[d + 1] = c

\* bytes.fromhex(s) for an even number of hexadecimal digits.
FromHex(s) == [i \in 1..(Len(s) \div 2) |->
                  16 * HexVal(s[2 * i - 1]) + HexVal(s[2 * i])]

\* s.startswith("0x")
StartsWith0x(s) == Len(s) >= 2 /\ s[1] = "0" /\ s[2] = "x"

\* A hash input that leaves the vault out.
VaultBytesUnmarked(vault_address) == <<0>>

\* The marker byte and, with a vault, its address bytes (client.py 121-125).
VaultBytes(vault_address) ==
    IF vault_address = None THEN <<0>>
    ELSE <<1>> \o FromHex(IF StartsWith0x(vault_address.v)
                          THEN SubSeq(vault_address.v, 3, Len(vault_address.v))
                          ELSE vault_address.v)

\* The bytes that are hashed (client.py 119-125).
ConnectionBytes(action, vault_address, nonce) ==
    Pack(action) \o ToBytes(nonce, 8) \o VaultBytes(vault_address)

\* keccak-256 as an ideal hash: the digest stands for exactly its input.
keccak(data) == [keccak256 |-> data]

\* The signature over the phantom agent: who signed, the network tag, the hash.
sign_l1_action(wallet, action, vault_address, nonce, is_mainnet) ==
    [signer       |-> wallet,
     source       |-> IF is_mainnet THEN "a" ELSE "b",
     connectionId |-> keccak(ConnectionBytes(action, vault_address, nonce))]

(***************************************************************************)
(* The client (client.py 41-336)                                           *)
(***************************************************************************)

VARIABLES
    phase,          \* the caller: "new", "entering" (__aenter__ awaits meta),
                    \* "body", "exited", "enter_failed"
    session,        \* self.session: "none", "open", "closed"
    vault_address,  \* self.vault_address: None or a str
    coin_to_asset,  \* self.coin_to_asset: Unset, or a dict name -> index
    coin_info,      \* self.coin_info: Unset, or a dict name -> asset_info
    universe,       \* meta_data["universe"] as the exchange returned it
    now,            \* the wall clock, in milliseconds
    tasks,          \* the update_leverage coroutines __aenter__ handed to gather
    waiting,        \* 0, or when the caller's coroutine began the await it is in
    nonces,         \* the nonces the client's methods stamped on the payloads
                    \* they handed to post("/exchange")
    last,           \* the most recent call of a client method, and how it went
    payload,        \* the most recent payload _post_action built
    x,              \* an argument of float_to_wire
    wire,           \* what float_to_wire made of it
    response,       \* a response the session hands to post
    outcome         \* what post made of it

vars == <<phase, session, vault_address, coin_to_asset, coin_info, universe,
          now, tasks, waiting, nonces, last, payload, x, wire, response,
          outcome>>

\* An attribute __init__ never set (coin_to_asset, coin_info before __aenter__).
Unset == [k |-> "unset", v |-> <<>>]

\* self.base_url (client.py 49) and the URL line 164 compares it with.
base_url == "https://api.hyperliquid.xyz"

MainnetUrl == "https://api.hyperliquid.xyz"

\* self.wallet (client.py 56).
wallet == "wallet"

K_type == <<"t", "y", "p", "e">>

K_order == <<"o", "r", "d", "e", "r">>

K_orders == <<"o", "r", "d", "e", "r", "s">>

K_grouping == <<"g", "r", "o", "u", "p", "i", "n", "g">>

K_na == <<"n", "a">>

K_cancel == <<"c", "a", "n", "c", "e", "l">>

K_cancels == <<"c", "a", "n", "c", "e", "l", "s">>

K_updateLeverage ==
    <<"u", "p", "d", "a", "t", "e", "L", "e", "v", "e", "r", "a", "g", "e">>

K_asset == <<"a", "s", "s", "e", "t">>

K_isCross == <<"i", "s", "C", "r", "o", "s", "s">>

K_leverage == <<"l", "e", "v", "e", "r", "a", "g", "e">>

K_usdClassTransfer ==
    <<"u", "s", "d", "C", "l", "a", "s", "s", "T", "r", "a", "n", "s", "f", "e", "r">>

K_name == <<"n", "a", "m", "e">>

K_maxLeverage == <<"m", "a", "x", "L", "e", "v", "e", "r", "a", "g", "e">>

K_universe == <<"u", "n", "i", "v", "e", "r", "s", "e">>

\* get_timestamp_ms (client.py 13-14): the wall clock when it is called.
get_timestamp_ms == now

\* What a call did before its first suspension: the exception it raised (or
\* "none"), the payloads it handed to post, the registry entries it saw, and
\* the entry of its request list that failed (0: none).
Effect(raised, payloads, failed_at) ==
    [raised |-> raised, payloads |-> payloads, failed_at |-> failed_at]

\* _post_action up to its call of post (client.py 157-173): the payload.
post_action_keeps_vault(action, nonce) ==
    [action       |-> action,
     nonce        |-> nonce,
     signature    |-> sign_l1_action(wallet, action, vault_address, nonce,
                                     base_url = MainnetUrl),
     vaultAddress |-> vault_address]

_post_action(action, nonce) ==
    [action       |-> action,
     nonce        |-> nonce,
     signature    |-> sign_l1_action(wallet, action, vault_address, nonce,
                                     base_url = MainnetUrl),
     vaultAddress |-> IF DictGet(action, PyStr(K_type)) # PyStr(K_usdClassTransfer)
                      THEN vault_address ELSE None]

\* One order_wire (client.py 186-193, 211-219): the asset lookup, then the
\* price, then the size; the first that fails ends it.
OrderWire(order) ==
    IF coin_to_asset = Unset THEN [raised |-> "AttributeError", value |-> None]
    ELSE IF ~DictHas(coin_to_asset, PyStr(order.coin))
    THEN [raised |-> "KeyError", value |-> None]
    ELSE LET p  == float_to_wire(order.limit_px)
             sz == float_to_wire(order.sz)
         IN  IF p.raised # "none" THEN [raised |-> p.raised, value |-> None]
             ELSE IF sz.raised # "none" THEN [raised |-> sz.raised, value |-> None]
             ELSE [raised |-> "none",
                   value  |-> PyDict(<<
                       <<PyStr(<<"a">>), DictGet(coin_to_asset, PyStr(order.coin))>>,
                       <<PyStr(<<"b">>), PyBool(order.is_buy)>>,
                       <<PyStr(<<"p">>), PyStr(p.value)>>,
                       <<PyStr(<<"s">>), PyStr(sz.value)>>,
                       <<PyStr(<<"r">>), PyBool(order.reduce_only)>>,
                       <<PyStr(<<"t">>), order.order_type>> >>)]

OrderAction(order_wires) ==
    PyDict(<< <<PyStr(K_type), PyStr(K_order)>>,
              <<PyStr(K_orders), PyList(order_wires)>>,
              <<PyStr(K_grouping), PyStr(K_na)>> >>)

\* place_order (client.py 176-205).
place_order(order) ==
    LET w == OrderWire(order)
    IN  IF w.raised # "none" THEN Effect(w.raised, <<>>, 1)
        ELSE Effect("none",
                    <<_post_action(OrderAction(<<w.value>>), get_timestamp_ms)>>, 0)

\* The first entry of a request list that fails, or 0.
FirstFailure(results) ==
    IF \E i \in 1..Len(results) : results[i].raised # "none"
    THEN CHOOSE i \in 1..Len(results) :
            /\ results[i].raised # "none"
            /\ \A j \in 1..(i - 1) : results[j].raised = "none"
    ELSE 0

\* A place_orders that posts every order as soon as it is built.
place_orders_posts_early(order_requests) ==
    LET ws == [i \in 1..Len(order_requests) |-> OrderWire(order_requests[i])]
        f  == FirstFailure(ws)
        n  == IF f = 0 THEN Len(order_requests) ELSE f - 1
    IN  Effect(IF f = 0 THEN "none" ELSE ws[f].raised,
               [i \in 1..n |->
                   _post_action(OrderAction(<<ws[i].value>>), get_timestamp_ms)],
               f)

\* place_orders (client.py 207-233): every wire is built, then one post.
place_orders(order_requests) ==
    LET ws == [i \in 1..Len(order_requests) |-> OrderWire(order_requests[i])]
        f  == FirstFailure(ws)
    IN  IF f # 0 THEN Effect(ws[f].raised, <<>>, f)
        ELSE Effect("none",
                    <<_post_action(
                        OrderAction([i \in 1..Len(ws) |-> ws[i].value]),
                        get_timestamp_ms)>>, 0)

\* One entry of "cancels" (client.py 241-244, 259-262).
CancelWire(cancel) ==
    IF coin_to_asset = Unset THEN [raised |-> "AttributeError", value |-> None]
    ELSE IF ~DictHas(coin_to_asset, PyStr(cancel.coin))
    THEN [raised |-> "KeyError", value |-> None]
    ELSE [raised |-> "none",
          value  |-> PyDict(<<
              <<PyStr(<<"a">>), DictGet(coin_to_asset, PyStr(cancel.coin))>>,
              <<PyStr(<<"o">>), PyInt(cancel.oid)>> >>)]

CancelAction(cancel_wires) ==
    PyDict(<< <<PyStr(K_type), PyStr(K_cancel)>>,
              <<PyStr(K_cancels), PyList(cancel_wires)>> >>)

\* cancel_orders (client.py 253-270); cancel_order (235-251) is the same on
\* a list of one.  The timestamp is taken first, the lookups follow.
cancel_orders(cancel_requests) ==
    LET timestamp == get_timestamp_ms
        ws == [i \in 1..Len(cancel_requests) |-> CancelWire(cancel_requests[i])]
        f  == FirstFailure(ws)
    IN  IF f # 0 THEN Effect(ws[f].raised, <<>>, f)
        ELSE Effect("none",
                    <<_post_action(
                        CancelAction([i \in 1..Len(ws) |-> ws[i].value]),
                        timestamp)>>, 0)

cancel_order(name, oid) == cancel_orders(<<[coin |-> name, oid |-> oid]>>)

\* update_leverage (client.py 291-315).
update_leverage(asset_name, leverage, is_cross) ==
    IF coin_info = Unset THEN Effect("AttributeError", <<>>, 1)
    ELSE IF ~DictHas(coin_info, PyStr(asset_name)) THEN Effect("KeyError", <<>>, 1)
    ELSE LET asset_info   == DictGet(coin_info, PyStr(asset_name))
             max_leverage == DictGet(asset_info, PyStr(K_maxLeverage)).v[1]
         IN  IF leverage > max_leverage THEN Effect("ValueError", <<>>, 1)
             ELSE Effect("none",
                         <<_post_action(
                             PyDict(<<
                               <<PyStr(K_type), PyStr(K_updateLeverage)>>,
                               <<PyStr(K_asset),
                                 DictGet(coin_to_asset, PyStr(asset_name))>>,
                               <<PyStr(K_isCross), PyBool(is_cross)>>,
                               <<PyStr(K_leverage), PyInt(leverage)>> >>),
                             get_timestamp_ms)>>, 0)

(***************************************************************************)
(* post and _handle_exception (client.py 87-116).  A response is its       *)
(* status, its raw text, whether the text is JSON, and the parsed value.   *)
(***************************************************************************)

K_code == <<"c", "o", "d", "e">>

K_msg == <<"m", "s", "g">>

K_data == <<"d", "a", "t", "a">>

K_error == <<"e", "r", "r", "o", "r">>

\* response.headers, as a value.
Headers == [k |-> "headers", v |-> <<>>]

\* How a call of post ended: the exception and its fields, or the value
\* returned to the caller.
Raise(kind, status_code, error_code, error_message, header, error_data, message) ==
    [raised |-> kind, status_code |-> status_code, error_code |-> error_code,
     error_message |-> error_message, header |-> header,
     error_data |-> error_data, message |-> message,
     returned |-> FALSE, value |-> None]

Return(value) ==
    [raised |-> "none", status_code |-> 0, error_code |-> None,
     error_message |-> None, header |-> None, error_data |-> None,
     message |-> None, returned |-> TRUE, value |-> value]

\* The placeholder of client.py line 100.
CouldNotParse(text) == PyDict(<< <<PyStr(K_error), PyStr(text)>> >>)

\* _handle_exception (client.py 102-116); "none" when it returns.
_handle_exception(r) ==
    IF r.status < 400 THEN Return(None)
    ELSE IF r.status < 500 THEN
        IF ~r.json \/ r.value.k = "nil"
        THEN Raise("ClientError", r.status, None, PyStr(r.text), None, Headers, None)
        ELSE IF r.value.k # "dict"
        THEN Raise("AttributeError", r.status, None, None, None, None, None)
        ELSE IF ~DictHas(r.value, PyStr(K_code)) \/ ~DictHas(r.value, PyStr(K_msg))
        THEN Raise("KeyError", r.status, None, None, None, None, None)
        ELSE Raise("ClientError", r.status, DictGet(r.value, PyStr(K_code)),
                   DictGet(r.value, PyStr(K_msg)), Headers,
                   DictGet(r.value, PyStr(K_data)), None)
    ELSE Raise("ServerError", r.status, None, None, None, None, PyStr(r.text))

\* post from the response on (client.py 95-100).
post(r) ==
    LET e == _handle_exception(r)
    IN  IF e.raised # "none" THEN e
        ELSE IF r.json THEN Return(r.value)
        ELSE Return(CouldNotParse(r.text))

(***************************************************************************)
(* Bounds and inputs                                                       *)
(***************************************************************************)

\* The longest request list handed to place_orders and cancel_orders.
MaxOrders == 2

\* The most payloads handed to post("/exchange") in one run.
MaxSent == 2

\* The most milliseconds the clock advances in one run.
MaxClock == 2

\* The clock when the client is constructed.
StartClock == 1700000

BTC == <<"B", "T", "C">>

ETH == <<"E", "T", "H">>

DOGE == <<"D", "O", "G", "E">>

\* One entry of the metadata's universe list.
AssetInfo(name, maxLeverage) ==
    PyDict(<< <<PyStr(K_name), PyStr(name)>>,
              <<PyStr(K_maxLeverage), PyInt(maxLeverage)>> >>)

\* The assets the exchange may list; DOGE is never listed.
AssetPool == <<AssetInfo(BTC, 50), AssetInfo(ETH, 25)>>

\* The universe lists: assets of the pool, none twice, in any order.
Universes ==
    LET picks == UNION {[1..n -> 1..Len(AssetPool)] : n \in 0..Len(AssetPool)}
    IN  {[i \in 1..Len(p) |-> AssetPool[p[i]]] :
            p \in {q \in picks : \A i, j \in 1..Len(q) : i # j => q[i] # q[j]}}

Coins == {BTC, DOGE}

Num(neg, ip, f8, r) == [neg |-> neg, ip |-> ip, f8 |-> f8, r |-> r]

\* 1100 and 0.1, which float_to_wire accepts, and 0.123456789, which it refuses.
GoodPrice == Num(FALSE, 1100, 0, 0)

GoodSize == Num(FALSE, 0, 10000000, 0)

TooFine == Num(FALSE, 0, 12345678, 90000)

\* {"limit": {"tif": "Gtc"}}
LimitGtc ==
    PyDict(<< <<PyStr(<<"l", "i", "m", "i", "t">>),
                PyDict(<< <<PyStr(<<"t", "i", "f">>),
                            PyStr(<<"G", "t", "c">>)>> >>)>> >>)

OrderRequest(coin, sz, limit_px) ==
    [coin |-> coin, is_buy |-> TRUE, sz |-> sz, limit_px |-> limit_px,
     reduce_only |-> FALSE, order_type |-> LimitGtc]

OrderRequests == {OrderRequest(BTC, GoodSize, GoodPrice),
                  OrderRequest(DOGE, GoodSize, GoodPrice),
                  OrderRequest(BTC, TooFine, GoodPrice),
                  OrderRequest(BTC, GoodSize, TooFine)}

\* The entries of the lists handed to place_orders.
BatchOrders == {OrderRequest(BTC, GoodSize, GoodPrice),
                OrderRequest(ETH, TooFine, GoodPrice)}

CancelRequests == {[coin |-> c, oid |-> 7] : c \in {BTC, DOGE}}

Lists(S) == UNION {[1..n -> S] : n \in 1..MaxOrders}

\* The cancel batches name each order at most once.
CancelLists ==
    {cs \in Lists(CancelRequests) : \A i, j \in 1..Len(cs) : i # j => cs[i] # cs[j]}

Leverages == {25, 51}

\* An account-level transfer, an action the caller hands to _post_action.
UsdClassTransfer ==
    PyDict(<< <<PyStr(K_type), PyStr(K_usdClassTransfer)>>,
              <<PyStr(<<"t", "o", "P", "e", "r", "p">>), PyBool(TRUE)>> >>)

\* Vault addresses: 20 bytes with the 0x prefix, and without it in capitals.
VaultA ==
    PyStr(<<"0", "x", "a", "b", "c", "d", "e", "f", "0", "1", "2", "3", "4", "5",
            "6", "7", "8", "9", "a", "b", "c", "d", "e", "f", "0", "1", "2", "3",
            "4", "5", "6", "7", "8", "9", "a", "b", "c", "d", "e", "f", "0", "1">>)

VaultB ==
    PyStr(<<"0", "0", "A", "B", "C", "D", "E", "F", "0", "1", "2", "3", "4", "5",
            "6", "7", "8", "9", "A", "B", "C", "D", "E", "F", "0", "1", "2", "3",
            "4", "5", "6", "7", "8", "9", "A", "B", "C", "D", "E", "F">>)

VaultAddresses == {VaultA, VaultB}

Response(status, text, json, value) ==
    [status |-> status, text |-> text, json |-> json, value |-> value]

OkBody ==
    PyDict(<< <<PyStr(<<"s", "t", "a", "t", "u", "s">>), PyStr(<<"o", "k">>)>> >>)

BadNonce ==
    PyDict(<< <<PyStr(K_code), PyStr(<<"X">>)>>,
              <<PyStr(K_msg), PyStr(<<"b", "a", "d", " ", "n", "o", "n", "c", "e">>)>> >>)

\* What the exchange answers in a run of the client.
ExchangeResponses ==
    {Response(200, <<"o", "k">>, TRUE, OkBody),
     Response(400, <<"b", "n">>, TRUE, BadNonce),
     Response(500, <<"d", "o", "w", "n">>, FALSE, None)}

MetaBody(u) == PyDict(<< <<PyStr(K_universe), PyList(u)>> >>)

MetaResponses ==
    {Response(200, <<"m">>, TRUE, MetaBody(u)) : u \in Universes}
    \cup {Response(200, <<"h", "t", "m", "l">>, FALSE, None),
          Response(500, <<"d", "o", "w", "n">>, FALSE, None)}

(***************************************************************************)
(* The client's life: __aenter__, the calls, __aexit__ (client.py 66-85)   *)
(***************************************************************************)

NoPayload ==
    [action |-> None, nonce |-> 0,
     signature |-> [signer |-> "", source |-> "", connectionId |-> keccak(<<>>)],
     vaultAddress |-> None]

NoCall ==
    [op |-> "none", owner |-> 0, coin |-> <<>>, raised |-> "none", handed |-> 0,
     sess |-> "n/a", failed_at |-> 0, seen |-> -1]

NoWire == [raised |-> "pending", value |-> <<>>]

NoResponse == Response(0, <<>>, FALSE, None)

NoOutcome == [Return(None) EXCEPT !.raised = "pending", !.returned = FALSE]

Init ==
    /\ phase = "new"
    /\ session = "none"
    /\ vault_address = None
    /\ coin_to_asset = Unset
    /\ coin_info = Unset
    /\ universe = <<>>
    /\ now = StartClock
    /\ tasks = <<>>
    /\ waiting = 0
    /\ nonces = <<>>
    /\ last = NoCall
    /\ payload = NoPayload
    /\ x = Num(FALSE, 0, 0, 0)
    /\ wire = NoWire
    /\ response = NoResponse
    /\ outcome = NoOutcome

\* A call that handed a payload to an open session awaits the response.
Suspends(eff) ==
    /\ eff.raised = "none"
    /\ eff.payloads # <<>>
    /\ session # "closed"

\* The methods that stamp their payload with get_timestamp_ms.
StampingCalls == {"place_order", "place_orders", "cancel_order", "cancel_orders",
                  "update_leverage"}

\* What a call leaves behind up to its first suspension: post (client.py
\* 89-95) opens a session when there is none, and sends on self.session, which
\* refuses when it is closed.  owner 0 is the caller, i > 0 the i-th task.
Deliver(owner, op, coin, eff) ==
    LET n     == Len(eff.payloads)
        sends == n > 0
        log   == IF op \in StampingCalls
                 THEN [i \in 1..n |-> eff.payloads[i].nonce] ELSE <<>>
    IN  /\ Len(nonces) + Len(log) <= MaxSent
        /\ session' = IF sends /\ session = "none" THEN "open" ELSE session
        /\ nonces' = nonces \o log
        /\ payload' = IF sends THEN eff.payloads[n] ELSE payload
        /\ last' = [op        |-> op,
                    owner     |-> owner,
                    coin      |-> coin,
                    raised    |-> IF eff.raised # "none" THEN eff.raised
                                  ELSE IF sends /\ session = "closed"
                                  THEN "RuntimeError" ELSE "none",
                    handed    |-> n,
                    sess      |-> IF ~sends THEN "n/a"
                                  ELSE IF session = "none" THEN "open" ELSE session,
                    failed_at |-> eff.failed_at,
                    seen      |-> IF coin_to_asset = Unset THEN -1
                                  ELSE Len(coin_to_asset.v)]

\* A call by the caller's coroutine.
Call(op, coin, effect) ==
    /\ phase \in {"new", "body"}
    /\ waiting = 0
    /\ \E eff \in {effect} :
          /\ Deliver(0, op, coin, eff)
          /\ waiting' = IF Suspends(eff) THEN now ELSE 0
    /\ UNCHANGED <<phase, vault_address, coin_to_asset, coin_info, universe, now,
                   tasks, x, wire, response, outcome>>

\* The caller sets client.vault_address (client.py 58) before using the client.
ConfigureVault ==
    /\ phase = "new"
    /\ vault_address = None
    /\ last = NoCall
    /\ vault_address' = VaultA
    /\ UNCHANGED <<phase, session, coin_to_asset, coin_info, universe, now, tasks,
                   waiting, nonces, last, payload, x, wire, response, outcome>>

\* A millisecond passes.
Tick ==
    /\ now < StartClock + MaxClock
    /\ now' = now + 1
    /\ UNCHANGED <<phase, session, vault_address, coin_to_asset, coin_info,
                   universe, tasks, waiting, nonces, last, payload, x, wire,
                   response, outcome>>

\* __aenter__ up to "await self.meta()" (client.py 67-68).
AEnter ==
    /\ phase = "new"
    /\ waiting = 0
    /\ session' = "open"
    /\ phase' = "entering"
    /\ waiting' = now
    /\ UNCHANGED <<vault_address, coin_to_asset, coin_info, universe, now, tasks,
                   nonces, last, payload, x, wire, response, outcome>>

\* A registry that numbers the assets from one.
RegistryFromOne(u) ==
    PyDict([i \in 1..Len(u) |-> <<DictGet(u[i], PyStr(K_name)), PyInt(i)>>])

\* self.coin_to_asset after the loop of client.py 74-78.
RegistryOf(u) ==
    PyDict([i \in 1..Len(u) |-> <<DictGet(u[i], PyStr(K_name)), PyInt(i - 1)>>])

\* self.coin_info after the loop.
InfoOf(u) ==
    PyDict([i \in 1..Len(u) |-> <<DictGet(u[i], PyStr(K_name)), u[i]>>])

\* The coroutines of client.py 78, as gather schedules them (line 79).
TasksOf(u) ==
    [i \in 1..Len(u) |->
        [name     |-> DictGet(u[i], PyStr(K_name)).v,
         leverage |-> DictGet(u[i], PyStr(K_maxLeverage)).v[1],
         st       |-> "pending",
         at       |-> 0]]

\* A response arrives in a later millisecond than its request left.
Arrived(since) == since # 0 /\ now > since

\* __aenter__ from the metadata's arrival to its return (client.py 68-81):
\* no await in between, and gather is not awaited.
AEnterMeta ==
    /\ phase = "entering"
    /\ Arrived(waiting)
    /\ waiting' = 0
    /\ \E r \in MetaResponses :
        LET o == post(r)
        IN  IF o.raised = "none" /\ o.value.k = "dict"
               /\ DictHas(o.value, PyStr(K_universe))
            THEN LET u == DictGet(o.value, PyStr(K_universe)).v
                 IN  /\ universe' = u
                     /\ coin_to_asset' = RegistryOf(u)
                     /\ coin_info' = InfoOf(u)
                     /\ tasks' = TasksOf(u)
                     /\ phase' = "body"
            ELSE /\ phase' = "enter_failed"
                 /\ UNCHANGED <<universe, coin_to_asset, coin_info, tasks>>
    /\ UNCHANGED <<session, vault_address, now, nonces, last, payload, x, wire,
                   response, outcome>>

\* __aexit__ (client.py 83-85).
AExit ==
    /\ phase = "body"
    /\ waiting = 0
    /\ session' = IF session = "none" THEN "none" ELSE "closed"
    /\ phase' = "exited"
    /\ UNCHANGED <<vault_address, coin_to_asset, coin_info, universe, now, tasks,
                   waiting, nonces, last, payload, x, wire, response, outcome>>

\* The event loop runs a startup task to its first suspension.
TaskStart ==
    \E i \in 1..Len(tasks) :
        /\ tasks[i].st = "pending"
        /\ \E eff \in {update_leverage(tasks[i].name, tasks[i].leverage, TRUE)} :
               /\ Deliver(i, "update_leverage", tasks[i].name, eff)
               /\ tasks' = [tasks EXCEPT
                               ![i].st = IF Suspends(eff) THEN "inflight" ELSE "raised",
                               ![i].at = IF Suspends(eff) THEN now ELSE 0]
        /\ UNCHANGED <<phase, vault_address, coin_to_asset, coin_info, universe,
                       now, waiting, x, wire, response, outcome>>

\* A startup task's response arrives; what it returns or raises stays in the
\* future gather made, which nothing awaits.
TaskRespond ==
    \E i \in 1..Len(tasks), r \in ExchangeResponses :
        /\ tasks[i].st = "inflight"
        /\ Arrived(tasks[i].at)
        /\ tasks' = [tasks EXCEPT
                        ![i].st = IF post(r).raised = "none" THEN "done" ELSE "raised",
                        ![i].at = 0]
        /\ UNCHANGED <<phase, session, vault_address, coin_to_asset, coin_info,
                       universe, now, waiting, nonces, last, payload, x, wire,
                       response, outcome>>

\* The caller's response arrives and post returns or raises.
CallerRespond ==
    /\ phase \in {"new", "body"}
    /\ Arrived(waiting)
    /\ \E r \in ExchangeResponses : post(r).raised \in {"none", "ClientError", "ServerError"}
    /\ waiting' = 0
    /\ UNCHANGED <<phase, session, vault_address, coin_to_asset, coin_info,
                   universe, now, tasks, nonces, last, payload, x, wire, response,
                   outcome>>

PlaceOrder ==
    \E o \in OrderRequests : Call("place_order", o.coin, place_order(o))

PlaceOrders ==
    \E os \in Lists(BatchOrders) :
        Call("place_orders", os[1].coin, place_orders(os))

CancelOrder ==
    \E c \in CancelRequests :
        Call("cancel_order", c.coin, cancel_order(c.coin, c.oid))

CancelOrders ==
    \E cs \in CancelLists :
        Call("cancel_orders", cs[1].coin, cancel_orders(cs))

UpdateLeverage ==
    \E c \in Coins, l \in Leverages :
        Call("update_leverage", c, update_leverage(c, l, TRUE))

\* The caller hands an action and a nonce of its own to _post_action.
PostAction ==
    Call("_post_action", <<>>,
         Effect("none", <<_post_action(UsdClassTransfer, get_timestamp_ms)>>, 0))

Next ==
    \/ ConfigureVault
    \/ Tick
    \/ AEnter
    \/ AEnterMeta
    \/ AExit
    \/ TaskStart
    \/ TaskRespond
    \/ CallerRespond
    \/ PlaceOrder
    \/ PlaceOrders
    \/ CancelOrder
    \/ CancelOrders
    \/ UpdateLeverage
    \/ PostAction

Spec == Init /\ [][Next]_vars

(***************************************************************************)
(* float_to_wire and post on their own: the inputs are drawn at the start, *)
(* one step applies the function.                                          *)
(***************************************************************************)

WireInputs ==
    [neg : BOOLEAN, ip : {0, 1, 1100}, f8 : {0, 1, 10000000, 99999999},
     r : {0, 1, 9, 10, 50000, 99991, 99999}]

InitWire ==
    /\ x \in WireInputs
    /\ wire = NoWire
    /\ phase = "new"
    /\ session = "none"
    /\ vault_address = None
    /\ coin_to_asset = Unset
    /\ coin_info = Unset
    /\ universe = <<>>
    /\ now = StartClock
    /\ tasks = <<>>
    /\ waiting = 0
    /\ nonces = <<>>
    /\ last = NoCall
    /\ payload = NoPayload
    /\ response = NoResponse
    /\ outcome = NoOutcome

FloatToWire ==
    /\ wire.raised = "pending"
    /\ wire' = float_to_wire(x)
    /\ UNCHANGED <<phase, session, vault_address, coin_to_asset, coin_info,
                   universe, now, tasks, waiting, nonces, last, payload, x,
                   response, outcome>>

SpecWire == InitWire /\ [][FloatToWire]_vars

Statuses == {200, 201, 204, 302, 399, 400, 401, 404, 422, 429, 499, 500, 502, 503, 599}

\* Bodies: {"code": "X", "msg": "bad nonce"}, the same with "data", a JSON
\* object without "code", one without "msg", null, [], {"status": "ok"} and
\* a text that is no JSON.
Bodies ==
    {[text |-> <<"1">>, json |-> TRUE, value |-> BadNonce],
     [text |-> <<"2">>, json |-> TRUE,
      value |-> PyDict(BadNonce.v \o << <<PyStr(K_data), PyStr(<<"d">>)>> >>)],
     [text |-> <<"3">>, json |-> TRUE,
      value |-> PyDict(<< <<PyStr(K_error), PyStr(<<"x">>)>> >>)],
     [text |-> <<"4">>, json |-> TRUE,
      value |-> PyDict(<< <<PyStr(K_code), PyStr(<<"X">>)>> >>)],
     [text |-> <<"5">>, json |-> TRUE, value |-> None],
     [text |-> <<"6">>, json |-> TRUE, value |-> PyList(<<>>)],
     [text |-> <<"7">>, json |-> TRUE, value |-> OkBody],
     [text |-> <<"8">>, json |-> FALSE, value |-> None]}

InitPost ==
    /\ response \in {Response(st, b.text, b.json, b.value) : st \in Statuses, b \in Bodies}
    /\ outcome = NoOutcome
    /\ phase = "new"
    /\ session = "none"
    /\ vault_address = None
    /\ coin_to_asset = Unset
    /\ coin_info = Unset
    /\ universe = <<>>
    /\ now = StartClock
    /\ tasks = <<>>
    /\ waiting = 0
    /\ nonces = <<>>
    /\ last = NoCall
    /\ payload = NoPayload
    /\ x = Num(FALSE, 0, 0, 0)
    /\ wire = NoWire

Post ==
    /\ outcome.raised = "pending"
    /\ outcome' = post(response)
    /\ UNCHANGED <<phase, session, vault_address, coin_to_asset, coin_info,
                   universe, now, tasks, waiting, nonces, last, payload, x, wire,
                   response>>

SpecPost == InitPost /\ [][Post]_vars

(***************************************************************************)
(* The claims                                                              *)
(***************************************************************************)

ActionType(action) == DictGet(action, PyStr(K_type))

\* A payload has been built.
Built == payload.action.k = "dict"

\* C1: the payload _post_action builds carries a null vaultAddress when the
\* action's type is "usdClassTransfer", whatever vault the client is
\* configured with, and the client's vault address for every other type.
C1_VaultOmittedForTransferOnly ==
    Built =>
        IF ActionType(payload.action) = PyStr(K_usdClassTransfer)
        THEN payload.vaultAddress = None
        ELSE payload.vaultAddress = vault_address

\* C1's case: a transfer was posted by a client configured with a vault.
C1_TransferWithVault ==
    /\ Built
    /\ ActionType(payload.action) = PyStr(K_usdClassTransfer)
    /\ vault_address = VaultA
    /\ last.op = "_post_action"
    /\ last.handed = 1

LocalErrors == {"ValueError", "KeyError", "AttributeError"}

\* C2: a call of place_order, place_orders, cancel_order, cancel_orders or
\* update_leverage that fails its local validation (precision, unknown
\* asset, leverage ceiling) has handed no request to the transport, wherever
\* in a request list the failing entry stands.
C2_NoRequestOnLocalFailure ==
    last.raised \in LocalErrors => (last.handed = 0 /\ last.sess = "n/a")

\* C2's case: place_orders refused its second entry after a good first one.
C2_SecondEntryFails ==
    /\ last.op = "place_orders"
    /\ last.failed_at = 2
    /\ last.raised = "ValueError"

\* C3: post raises ClientError for every status 400-499 (with the body's code
\* and msg when the body is JSON carrying them) and ServerError with the raw
\* text for every status >= 500, returns nothing to the caller in either case,
\* and raises neither for a status below 400.
C3_PostClassifiesByStatus ==
    outcome.raised # "pending" =>
        /\ (response.status >= 400 /\ response.status < 500) =>
              /\ outcome.raised = "ClientError"
              /\ ~outcome.returned
              /\ (/\ response.json
                  /\ response.value.k = "dict"
                  /\ DictHas(response.value, PyStr(K_code))
                  /\ DictHas(response.value, PyStr(K_msg)))
                 => /\ outcome.error_code = DictGet(response.value, PyStr(K_code))
                    /\ outcome.error_message = DictGet(response.value, PyStr(K_msg))
        /\ response.status >= 500 =>
              /\ outcome.raised = "ServerError"
              /\ outcome.message = PyStr(response.text)
              /\ ~outcome.returned
        /\ response.status < 400 =>
              outcome.raised \notin {"ClientError", "ServerError"}

\* The name of the i-th asset of the universe list.
NameAt(i) == DictGet(universe[i], PyStr(K_name))

\* The asset index a signed action carries (of its first entry, for a list).
SignedAsset(action) ==
    CASE ActionType(action) = PyStr(K_order) ->
            DictGet(DictGet(action, PyStr(K_orders)).v[1], PyStr(<<"a">>))
      [] ActionType(action) = PyStr(K_cancel) ->
            DictGet(DictGet(action, PyStr(K_cancels)).v[1], PyStr(<<"a">>))
      [] ActionType(action) = PyStr(K_updateLeverage) ->
            DictGet(action, PyStr(K_asset))

C5_NoncesUnique ==
    \A i, j \in 1..Len(nonces) : i # j => nonces[i] # nonces[j]

\* C6: float_to_wire returns "0", never "-0", for every accepted input that
\* rounds to zero at 8 fractional digits with a negative sign.
C6_NegativeZeroIsZero ==
    (wire.raised = "none" /\ x.neg /\ x.ip = 0 /\ x.f8 = 0 /\ x.r < Tolerance)
        => wire.value = <<"0">>

\* C7: for the action and nonce of every payload, the bytes hashed with a
\* vault address differ from those hashed without one: the serialized action,
\* the nonce as 8 big-endian bytes, then 0x00 alone, or 0x01 and the address
\* bytes; and the signature handed over is over the bytes for the client's vault.
C7_VaultChangesHashInput ==
    Built =>
        LET packed == Pack(payload.action)
            plain  == ConnectionBytes(payload.action, None, payload.nonce)
        IN  /\ payload.signature.connectionId
                  = keccak(ConnectionBytes(payload.action, vault_address, payload.nonce))
            /\ Len(plain) = Len(packed) + 9
            /\ SubSeq(plain, 1, Len(packed)) = packed
            /\ SubSeq(plain, Len(packed) + 1, Len(packed) + 8) = ToBytes(payload.nonce, 8)
            /\ plain[Len(plain)] = 0
            /\ \A a \in VaultAddresses :
                  LET vaulted == ConnectionBytes(payload.action, a, payload.nonce)
                  IN  /\ vaulted # plain
                      /\ keccak(vaulted) # keccak(plain)
                      /\ SubSeq(vaulted, 1, Len(packed) + 8)
                            = SubSeq(plain, 1, Len(packed) + 8)
                      /\ vaulted[Len(packed) + 9] = 1
                      /\ Len(vaulted) = Len(packed) + 9 + 20

\* C7's case: an order was signed by a client configured with a vault.
C7_OrderSignedWithVault ==
    /\ Built
    /\ ActionType(payload.action) = PyStr(K_order)
    /\ vault_address = VaultA
    /\ payload.signature.connectionId
          # keccak(ConnectionBytes(payload.action, None, payload.nonce))

\* C8: when __aenter__ has returned, every leverage update it launched has
\* completed, and none of them failed without __aenter__ failing.
C8_EnterJoinsStartupCalls ==
    phase \in {"body", "exited"} => \A i \in 1..Len(tasks) : tasks[i].st = "done"

\* C9: no call of post sends on a session __aexit__ has closed.
C9_NoSendOnClosedSession ==
    last.sess # "closed"

\* C10: the payload agrees with what was signed: the signed hash is the one
\* of the payload's own action, nonce and vaultAddress.
C10_PayloadMatchesSignature ==
    Built =>
        payload.signature.connectionId
            = keccak(ConnectionBytes(payload.action, payload.vaultAddress, payload.nonce))

====
